---- MODULE Spec2Model ----
(***************************************************************************)
(* Real-time chat subsystem of the trading-app client.                     *)
(*                                                                         *)
(*   - ChatService (the socket transport singleton `chatService`)          *)
(*   - the chat screen's typing-indicator effect                           *)
(*   - the chat screen's message list: history loads, push events,         *)
(*     optimistic inserts (handleSend, handleSendSuggestion)               *)
(*   - the AuthProvider's socket effect                                    *)
(*   - the admin sessions list (AdminChatSessionsScreen)                   *)
(*                                                                         *)
(* Eleven specifications share this module; each leaves the variables of   *)
(* the parts it does not step at their initial values.                     *)
(*   SpecTransport : ChatService under any sequence of calls of its public *)
(*                   methods and of socket.io events                       *)
(*   SpecTyping    : the typing-indicator effect                           *)
(*   SpecChat      : the chat screen's message list                        *)
(*   SpecSend      : handleSend with attachments                           *)
(*   SpecSuggest   : handleSend and the suggestion chips                   *)
(*   SpecInbound   : the screen's 'new-message' and 'user-typing' handlers *)
(*   SpecDeliver   : text sends and their confirmation, with fairness      *)
(*   SpecEffect    : the runs of initializeChat and reloadMessages         *)
(*   SpecListen    : the on...() subscriptions of ChatService              *)
(*   SpecAuth      : the AuthProvider's socket effect, login and logout    *)
(*   SpecAdmin     : the admin sessions list under pushes and reloads      *)
(***************************************************************************)
EXTENDS Integers, Sequences, FiniteSets, TLC

\* ------------------------------------------------------------------ bounds

\* Number of sockets ChatService.connect may create in one run.
MaxSockets == 2

Sockets == 1..MaxSockets

\* Longest text typed into the chat input (only its length is modelled).
MaxText == 2

\* Most sendTyping calls followed within one burst of keystrokes.
MaxBurst == 4

\* Most messages the server persists for the session in one run.
MaxServer == 2

\* Most messages the admin list holds for its sessions together.
MaxListed == 3

\* Most sends (handleSend) the user starts in one run.
MaxSends == 2

\* `this.socket = null`
NoSocket == 0

\* Session ids known to the callers; "none" stands for null.
Sessions == {"A", "B"}
NoSession == "none"

VARIABLES
  \* ---- ChatService fields
  socket,            \* this.socket: NoSocket or the socket io() returned last
  isConnected,       \* this.isConnected
  currentSessionId,  \* this.currentSessionId
  \* ---- socket.io objects created by connect()
  sockState,         \* per socket: "unused", "connecting", "connected", "closed"
  wasConnected,      \* per socket: its 'connect' event has fired before
  \* ---- observation of the last step
  lastOp,            \* the method called or event handled last, with its argument
  out,               \* the emits the last step made: <<socket, event, sessionId>>
  discCalled,        \* disconnect() was called and connect() has not been since
  pendingJoin,       \* the session of a joinSession call that emitted nothing and
                     \* that no later call or emit has settled; NoSession if none
  returned           \* what the last operation returned or that it raised

VARIABLES
  \* ---- chat screen state read by the typing-indicator effect
  message,           \* the input text, as its length
  session,           \* session?.id, NoSession before the session is loaded
  isTyping,          \* the isTyping state
  typingTimeoutRef,  \* the armed timeout with the isTyping and session its
                     \* closure captured, or NoTimer
  effectDue,         \* a dependency of the effect changed in the last commit
  \* ---- observation
  sent,              \* the flags of the sendTyping calls of the current burst
  quiet,             \* a typing timeout has expired since the last keystroke
  typed              \* per session, how the screen's sendTyping calls for it
                     \* went: none yet, the last flag while true and false
                     \* have alternated from a first true, or "broken"

transportVars ==
  <<socket, isConnected, currentSessionId, sockState, wasConnected,
    lastOp, out, discCalled, pendingJoin, returned>>

VARIABLES
  \* ---- chat screen: the message list and what feeds it
  messages,          \* the messages state: a sequence of [id, audio]
  initPc,            \* where initializeChat (or the retry handler) stands
  hist,              \* the getMessages calls in flight, by caller
  sending,           \* the sending state (the send lock)
  sendPc,            \* where handleSend stands
  sendTemp,          \* handleSend's locals: the temp id number and what is sent
  now,               \* Date.now() as used for temp ids: the number of sends so far
  selectedImage,     \* an image is selected in the input
  recordingUri,      \* a recorded voice note is held in the input
  listenSock,        \* the socket the 'new-message' listener is registered on
  \* ---- the backend
  serverLog,         \* the session's persisted messages; the id of entry i is i
  sockQ,             \* 'send-message' emits the server has not persisted yet
  \* ---- observation
  optTrack           \* the last optimistic insert and what followed it, or
                     \* that the last delivery was a repeated one

VARIABLES
  \* ---- chat screen: the runs of its asynchronous effects
  mounted,           \* the ChatScreen component is mounted
  routeSession,      \* routeParams?.sessionId, a dependency of the init effect
  loading,           \* the loading state
  error,             \* the error state is not null
  runs,              \* the initializeChat / reloadMessages calls made so far:
                     \* what each was started for and where it stands
  \* ---- ChatService event subscriptions
  handlers,          \* the listeners socket.io holds: <<socket, callback>>
  subs,              \* per callback: "none", or what on...() returned for it
                     \* ("noop", "off"), or "disposed" once that was called
  invoked,           \* the last inbound event: its socket and the callbacks run
  \* ---- AuthProvider
  authed,            \* isAuthenticated
  role,              \* user?.role, NoRole without a user
  connectTimeout,    \* the delayed connect of the socket effect is armed
  socketConnectedRef, \* socketConnectedRef.current
  \* ---- chat screen: inbound events
  otherUserTyping,   \* the otherUserTyping state
  \* ---- observation
  lastInbound,       \* the last inbound event the screen's listeners got
  \* ---- admin sessions list
  sessions,          \* the sessions state: the sessions shown, each with its
                     \* messages, most recent first
  adminLoad,         \* the loadSessions call in flight: where it stands and
                     \* what the backend answered
  adminSock,         \* the socket the list's 'new-message' listener is on
  allLog             \* the backend's messages of all sessions, oldest first;
                     \* the id and the createdAt of entry k are k

effectVars == <<mounted, routeSession, loading, error, runs>>

listenVars == <<handlers, subs, invoked>>

authVars == <<authed, role, connectTimeout, socketConnectedRef>>

inboundVars == <<otherUserTyping, lastInbound>>

adminVars == <<sessions, adminLoad, adminSock, allLog>>

appVars == <<effectVars, listenVars, authVars, inboundVars, adminVars>>

screenVars ==
  <<messages, initPc, hist, sending, sendPc, sendTemp, now, selectedImage,
    recordingUri, listenSock, serverLog, sockQ, optTrack>>

chatVars == <<screenVars, appVars>>

typingVars ==
  <<message, session, isTyping, typingTimeoutRef, effectDue, sent, quiet, typed>>

vars == <<transportVars, typingVars, chatVars>>

\* typingTimeoutRef.current holds no armed timeout.
NoTimer == [isTyping |-> FALSE, session |-> "unarmed"]

TypingInit ==
  /\ message = 0
  /\ session = NoSession
  /\ isTyping = FALSE
  /\ typingTimeoutRef = NoTimer
  /\ effectDue = FALSE
  /\ sent = <<>>
  /\ quiet = FALSE
  /\ typed = [s \in Sessions |-> "none"]

\* A message id: 'temp-<n>' made by handleSend, or the server's id n.
TempId(n) == [temp |-> TRUE, n |-> n]
ServerId(n) == [temp |-> FALSE, n |-> n]

\* m.id.startsWith('temp-')
isTemp(m) == m.id.temp

\* The callbacks screens pass to onNewMessage / onTyping / onMessagesRead /
\* onBalanceUpdated.
MaxCallbacks == 2
Callbacks == 1..MaxCallbacks

\* user.role
Roles == {"USER", "ADMIN"}
NoRole == "none"

\* No inbound event has arrived yet.
NoEvent == [sock |-> NoSocket, cbs |-> {}]

\* No getMessages call of this caller is in flight.
NoResult == [raised |-> FALSE, messages |-> <<>>]
HistIdle == [st |-> "idle", res |-> NoResult, failed |-> FALSE]

\* handleSend is not running.
NoSend == [n |-> 0, text |-> 0, image |-> FALSE, audio |-> FALSE]

\* No inbound event yet.
NoInbound == [ev |-> "none", sessionId |-> "none", self |-> FALSE, flag |-> FALSE,
              seq |-> 0]

\* No optimistic insert is being followed.
NoTrack == [phase |-> "none", n |-> 0, lenBefore |-> 0, confirmedBefore |-> 0, by |-> 0]

ChatInit ==
  /\ messages = <<>>
  /\ initPc = "unmounted"
  /\ hist = [k \in {"init", "focus"} |-> HistIdle]
  /\ sending = FALSE
  /\ sendPc = "idle"
  /\ sendTemp = NoSend
  /\ now = 0
  /\ selectedImage = FALSE
  /\ recordingUri = FALSE
  /\ listenSock = NoSocket
  /\ serverLog = <<>>
  /\ sockQ = {}
  /\ optTrack = NoTrack
  /\ mounted = FALSE
  /\ routeSession = NoSession
  /\ loading = TRUE
  /\ error = FALSE
  /\ runs = <<>>
  /\ handlers = {}
  /\ subs = [cb \in Callbacks |-> "none"]
  /\ invoked = NoEvent
  /\ authed = FALSE
  /\ role = NoRole
  /\ connectTimeout = FALSE
  /\ socketConnectedRef = FALSE
  /\ otherUserTyping = FALSE
  /\ lastInbound = NoInbound
  /\ sessions = <<>>
  /\ adminLoad = [st |-> "unmounted", ok |-> FALSE, data |-> <<>>]
  /\ adminSock = NoSocket
  /\ allLog = <<>>

\* ------------------------------------------------------------ ChatService

Op(name, s, arg) == [op |-> name, sock |-> s, arg |-> arg]

Emit(s, event, arg) == [sock |-> s, event |-> event, arg |-> arg, flag |-> FALSE]

\* emit('typing', { sessionId, isTyping })
EmitTyping(s, sessionId, flag) ==
  [sock |-> s, event |-> "typing", arg |-> sessionId, flag |-> flag]

\* The emits `es` hold one of `event` for session `arg`.
Emitted(es, event, arg) ==
  \E i \in 1..Len(es) : es[i].event = event /\ es[i].arg = arg

\* `this.socket?.connected`
socketConnected == socket # NoSocket /\ sockState[socket] = "connected"

\* get connected(): this.isConnected && this.socket?.connected === true
connected == isConnected /\ socketConnected

\* The guard of joinSession, joinAllSessions, sendMessageSocket, sendTyping:
\* `!this.socket || !this.isConnected` is false.
canEmit == socket # NoSocket /\ isConnected

\* Sockets that hold or are trying to establish a physical connection.
liveSockets == {s \in Sockets : sockState[s] \in {"connecting", "connected"}}

TransportInit ==
  /\ socket = NoSocket
  /\ isConnected = FALSE
  /\ currentSessionId = NoSession
  /\ sockState = [s \in Sockets |-> "unused"]
  /\ wasConnected = [s \in Sockets |-> FALSE]
  /\ lastOp = Op("init", NoSocket, NoSession)
  /\ out = <<>>
  /\ discCalled = FALSE
  /\ pendingJoin = NoSession
  /\ returned = NoResult

\* ------------------------------------------------- ChatService over REST

\* What the backend may answer to GET /chat/sessions/{id}/messages.
Responses == {"ok", "unsuccessful", "http404", "http500", "network"}

\* The `status` of a thrown value that has none (an Error object).
NoStatus == -1

\* ApiClient.request: handleResponse throws { status: response.status } when
\* !response.ok, and request rethrows it as it is; a fetch failure is rethrown
\* as { status: 0 }; otherwise the (normalised) body is returned.
request(resp) ==
  CASE resp = "ok"           -> [threw |-> FALSE, status |-> 200, success |-> TRUE]
    [] resp = "unsuccessful" -> [threw |-> FALSE, status |-> 200, success |-> FALSE]
    [] resp = "http404"      -> [threw |-> TRUE, status |-> 404, success |-> FALSE]
    [] resp = "http500"      -> [threw |-> TRUE, status |-> 500, success |-> FALSE]
    [] resp = "network"      -> [threw |-> TRUE, status |-> 0, success |-> FALSE]

\* The try block of getMessages: the status of what it throws, or the data.
getMessagesTry(resp, page) ==
  LET r == request(resp) IN
    IF r.threw THEN [threw |-> TRUE, status |-> r.status, messages |-> <<>>]
    ELSE IF r.success THEN [threw |-> FALSE, status |-> r.status, messages |-> page]
    ELSE [threw |-> TRUE, status |-> NoStatus, messages |-> <<>>]

\* A catch block that swallows every error.
getMessagesCatchAll(tried) == [raised |-> FALSE, messages |-> tried.messages]

\* The catch block of getMessages: `error?.status === 404` gives an empty
\* page, anything else is thrown on.
getMessagesCatch(tried) ==
  IF ~tried.threw THEN [raised |-> FALSE, messages |-> tried.messages]
  ELSE IF tried.status = 404 THEN [raised |-> FALSE, messages |-> <<>>]
  ELSE [raised |-> TRUE, messages |-> <<>>]

\* chatService.getMessages(sessionId) against a backend answering `resp` with
\* the page `page`.
getMessages(resp, page) == getMessagesCatch(getMessagesTry(resp, page))

\* --------------------------------------------- ChatService over socket.io

\* The fields of the service and the state of the sockets it made.
serviceVars == <<socket, isConnected, currentSessionId, sockState>>

\* The record of the last operation: which it was and what it emitted; it ran
\* to its end without raising.
observe(op, emits) == lastOp' = op /\ out' = emits /\ returned' = NoResult

\* An operation nobody keeps a record of.
unobserved ==
  UNCHANGED <<wasConnected, lastOp, out, discCalled, pendingJoin, returned>>

\* connect(token) when `this.socket?.connected`: logs and returns.
connectNoopFields ==
  /\ socketConnected
  /\ UNCHANGED serviceVars

connectNoop ==
  /\ connectNoopFields
  /\ observe(Op("connect", socket, NoSession), <<>>)
  /\ discCalled' = FALSE
  /\ UNCHANGED <<wasConnected, pendingJoin>>

\* connect(token) otherwise: io(...) makes a new socket, which starts its
\* handshake; the handlers are registered on it. The socket held before, if any,
\* is neither disconnected nor are its handlers removed.
connectNewFields ==
  /\ ~socketConnected
  /\ \E s \in Sockets :
       /\ sockState[s] = "unused"
       /\ \A r \in Sockets : r < s => sockState[r] # "unused"
       /\ socket' = s
       /\ sockState' = [sockState EXCEPT ![s] = "connecting"]
  /\ UNCHANGED <<isConnected, currentSessionId>>

connectNew ==
  /\ connectNewFields
  /\ observe(Op("connect", socket', NoSession), <<>>)
  /\ discCalled' = FALSE
  /\ UNCHANGED <<wasConnected, pendingJoin>>

connect == connectNoop \/ connectNew

\* A 'connect' handler that forgets the rejoin of the recorded session.
onConnectEmitsNoRejoin ==
  IF socket = NoSocket THEN <<>>
  ELSE <<Emit(socket, "join-sessions", NoSession)>>

\* A 'connect' handler that asks for the sessions only for an agent.
onConnectEmitsAgentOnly ==
  IF socket = NoSocket THEN <<>>
  ELSE (IF role = "ADMIN" THEN <<Emit(socket, "join-sessions", NoSession)>> ELSE <<>>) \o
       (IF currentSessionId # NoSession
          THEN <<Emit(socket, "join-session", currentSessionId)>>
          ELSE <<>>)

\* The emits of the 'connect' handler: 'join-sessions', then 'join-session' for
\* a recorded currentSessionId; `this.socket?.emit` does nothing without a socket.
onConnectEmits ==
  IF socket = NoSocket THEN <<>>
  ELSE <<Emit(socket, "join-sessions", NoSession)>> \o
       (IF currentSessionId # NoSession
          THEN <<Emit(socket, "join-session", currentSessionId)>>
          ELSE <<>>)

\* socket.on('connect'): fires on any socket connect() created whose handshake
\* (first or after a transport-level disconnect) completes.
onConnectFields(s) ==
  /\ sockState[s] = "connecting"
  /\ sockState' = [sockState EXCEPT ![s] = "connected"]
  /\ isConnected' = TRUE
  /\ UNCHANGED <<socket, currentSessionId>>

onConnect(s) ==
  /\ onConnectFields(s)
  /\ observe(Op(IF wasConnected[s] THEN "onReconnect" ELSE "onConnect", s,
                currentSessionId), onConnectEmits)
  /\ wasConnected' = [wasConnected EXCEPT ![s] = TRUE]
  /\ pendingJoin' = IF Emitted(onConnectEmits, "join-session", pendingJoin)
                      THEN NoSession ELSE pendingJoin
  /\ UNCHANGED discCalled

\* socket.on('disconnect'): the transport dropped. socket.io retries by itself
\* (reconnection: true), except after a server-side disconnect.
onDisconnectFields(s, retry) ==
  /\ sockState[s] = "connected"
  /\ sockState' = [sockState EXCEPT ![s] = IF retry THEN "connecting" ELSE "closed"]
  /\ isConnected' = FALSE
  /\ UNCHANGED <<socket, currentSessionId>>

onDisconnect(s, retry) ==
  /\ onDisconnectFields(s, retry)
  /\ observe(Op("onDisconnect", s, currentSessionId), <<>>)
  /\ UNCHANGED <<wasConnected, discCalled, pendingJoin>>

\* socket.on('connect_error'): an attempt failed; socket.io tries again until
\* reconnectionAttempts are used up, then the socket stays closed.
onConnectError(s, retry) ==
  /\ sockState[s] = "connecting"
  /\ sockState' = [sockState EXCEPT ![s] = IF retry THEN "connecting" ELSE "closed"]
  /\ isConnected' = FALSE
  /\ observe(Op("onConnectError", s, currentSessionId), <<>>)
  /\ UNCHANGED <<socket, currentSessionId, wasConnected, discCalled, pendingJoin>>

\* disconnect()
disconnect ==
  /\ IF socket # NoSocket
       THEN /\ sockState' = [sockState EXCEPT ![socket] = "closed"]
            /\ socket' = NoSocket
            /\ isConnected' = FALSE
            /\ currentSessionId' = NoSession
       ELSE UNCHANGED <<socket, isConnected, currentSessionId, sockState>>
  /\ observe(Op("disconnect", socket, NoSession), <<>>)
  /\ discCalled' = TRUE
  /\ pendingJoin' = NoSession
  /\ UNCHANGED wasConnected

\* A joinSession that tests only for a socket, not for isConnected.
joinSessionEmitsUnguarded(sessionId) ==
  IF socket # NoSocket THEN <<Emit(socket, "join-session", sessionId)>> ELSE <<>>

\* The emits of joinSession(sessionId).
joinSessionEmits(sessionId) ==
  IF canEmit THEN <<Emit(socket, "join-session", sessionId)>> ELSE <<>>

\* joinSession(sessionId)
joinSessionFields(sessionId) ==
  /\ currentSessionId' = sessionId
  /\ UNCHANGED <<socket, isConnected, sockState>>

joinSession(sessionId) ==
  /\ joinSessionFields(sessionId)
  /\ observe(Op("joinSession", socket, sessionId), joinSessionEmits(sessionId))
  /\ pendingJoin' = IF Emitted(joinSessionEmits(sessionId), "join-session", sessionId)
                      THEN NoSession ELSE sessionId
  /\ UNCHANGED <<wasConnected, discCalled>>

\* joinAllSessions()
joinAllSessions ==
  /\ observe(Op("joinAllSessions", socket, NoSession),
             IF canEmit THEN <<Emit(socket, "join-sessions", NoSession)>> ELSE <<>>)
  /\ UNCHANGED <<socket, isConnected, currentSessionId, sockState, wasConnected,
                 discCalled, pendingJoin>>

\* leaveSession()
leaveSession ==
  /\ currentSessionId' = NoSession
  /\ observe(Op("leaveSession", socket, NoSession), <<>>)
  /\ pendingJoin' = NoSession
  /\ UNCHANGED <<socket, isConnected, sockState, wasConnected, discCalled>>

\* A sendMessageSocket that tests only for a socket, not for isConnected.
sendMessageSocketEmitsUnguarded(sessionId) ==
  IF socket # NoSocket THEN <<Emit(socket, "send-message", sessionId)>> ELSE <<>>

\* The emits of sendMessageSocket(sessionId, message, imageUrl, audioUrl).
sendMessageSocketEmits(sessionId) ==
  IF canEmit THEN <<Emit(socket, "send-message", sessionId)>> ELSE <<>>

\* sendMessageSocket(sessionId, ...)
sendMessageSocket(sessionId) ==
  /\ observe(Op("sendMessageSocket", socket, sessionId),
             sendMessageSocketEmits(sessionId))
  /\ UNCHANGED <<socket, isConnected, currentSessionId, sockState, wasConnected,
                 discCalled, pendingJoin>>

\* sendTyping(sessionId, isTyping): the emits.
sendTypingEmits(sessionId, flag) ==
  IF canEmit THEN <<EmitTyping(socket, sessionId, flag)>> ELSE <<>>

\* sendTyping(sessionId, isTyping)
sendTyping(sessionId, flag) ==
  /\ observe(Op("sendTyping", socket, sessionId), sendTypingEmits(sessionId, flag))
  /\ UNCHANGED <<socket, isConnected, currentSessionId, sockState, wasConnected,
                 discCalled, pendingJoin>>

\* markAsRead(sessionId) rejects when `await api.post(endpoint)` throws; the
\* body of the answer is not looked at.
markAsReadRaises(resp) == request(resp).threw

\* The emits of markAsRead(sessionId): 'mark-read' after the post, when the
\* post did not throw and the service has a socket and isConnected.
markAsReadEmits(sessionId, resp) ==
  IF ~markAsReadRaises(resp) /\ canEmit
    THEN <<Emit(socket, "mark-read", sessionId)>>
    ELSE <<>>

\* A caller awaits markAsRead(sessionId) while the backend answers `resp` to
\* POST /chat/sessions/{id}/read.
markAsRead(sessionId, resp) ==
  /\ lastOp' = Op("markAsRead", socket, resp)
  /\ out' = markAsReadEmits(sessionId, resp)
  /\ returned' = [raised |-> markAsReadRaises(resp), messages |-> <<>>]
  /\ UNCHANGED <<socket, isConnected, currentSessionId, sockState, wasConnected,
                 discCalled, pendingJoin>>

\* A page of n persisted messages, oldest first.
Page(n) == [i \in 1..n |-> [id |-> ServerId(i), audio |-> "none", createdAt |-> i]]

\* A caller awaits getMessages(sessionId) while the backend answers `resp` with
\* `page`: what it gets back is recorded.
getMessagesCall(resp, page) ==
  /\ lastOp' = Op("getMessages", socket, resp)
  /\ out' = <<>>
  /\ returned' = getMessages(resp, page)
  /\ UNCHANGED <<socket, isConnected, currentSessionId, sockState, wasConnected,
                 discCalled, pendingJoin>>

TransportNext ==
  \/ connect
  \/ \E resp \in Responses, n \in 0..MaxServer : getMessagesCall(resp, Page(n))
  \/ disconnect
  \/ \E sessionId \in Sessions : joinSession(sessionId)
  \/ joinAllSessions
  \/ leaveSession
  \/ \E sessionId \in Sessions : sendMessageSocket(sessionId)
  \/ \E sessionId \in Sessions, flag \in BOOLEAN : sendTyping(sessionId, flag)
  \/ \E sessionId \in Sessions, resp \in Responses : markAsRead(sessionId, resp)
  \/ \E s \in Sockets : onConnect(s)
  \/ \E s \in Sockets, retry \in BOOLEAN : onDisconnect(s, retry)
  \/ \E s \in Sockets, retry \in BOOLEAN : onConnectError(s, retry)

\* The state after construction: the service singleton and an unmounted screen.
Init == TransportInit /\ TypingInit /\ ChatInit

TransportStep == TransportNext /\ UNCHANGED <<typingVars, chatVars>>

SpecTransport == Init /\ [][TransportStep]_vars

\* ------------------------------------------- typing indicator (chat screen)

\* The chat screen calls sendTyping: nothing of ChatService changes.
callSendTyping(name, sessionId, flag) ==
  /\ observe(Op(name, socket, sessionId), sendTypingEmits(sessionId, flag))
  /\ sent' = IF Len(sent) < MaxBurst THEN Append(sent, flag) ELSE sent
  /\ typed' = [typed EXCEPT ![sessionId] =
                  IF flag THEN IF @ \in {"none", "false"} THEN "true" ELSE "broken"
                          ELSE IF @ = "true" THEN "false" ELSE "broken"]
  /\ UNCHANGED <<socket, isConnected, currentSessionId, sockState, wasConnected,
                 discCalled, pendingJoin>>

\* A step of the screen that calls no ChatService method.
noCall(name) ==
  /\ observe(Op(name, socket, session), <<>>)
  /\ UNCHANGED <<socket, isConnected, currentSessionId, sockState, wasConnected,
                 discCalled, pendingJoin>>

\* The user edits the input (onChangeText -> setMessage): a keystroke. The input
\* is rendered once the session is loaded. A keystroke after a quiet second
\* starts a new burst.
changeTextFields(len) ==
  /\ session # NoSession
  /\ len # message
  /\ message' = len
  /\ effectDue' = TRUE
  /\ quiet' = FALSE
  /\ sent' = IF quiet THEN <<>> ELSE sent
  /\ UNCHANGED <<session, isTyping, typingTimeoutRef, typed>>

changeText(len) == changeTextFields(len) /\ noCall("changeText")

\* setSession(chatSession) in initializeChat.
setSession(id) ==
  /\ id # session
  /\ session' = id
  /\ effectDue' = TRUE
  /\ noCall("setSession")
  /\ UNCHANGED <<message, isTyping, typingTimeoutRef, sent, quiet, typed>>

\* Whether the effect body starts typing: message.length > 0 && !isTyping.
startsTyping == message > 0 /\ ~isTyping

\* The typing-indicator effect, run after a commit that changed message,
\* session?.id or isTyping: the cleanup of the previous run clears its timeout;
\* without a session the body returns at once; otherwise it may start typing and
\* arms a new timeout whose closure holds this render's isTyping and session.
typingEffect ==
  /\ effectDue
  /\ IF session = NoSession
       THEN /\ typingTimeoutRef' = NoTimer
            /\ effectDue' = FALSE
            /\ noCall("typingEffect")
            /\ UNCHANGED <<isTyping, sent, typed>>
       ELSE /\ typingTimeoutRef' = [isTyping |-> isTyping, session |-> session]
            /\ IF startsTyping
                 THEN /\ isTyping' = TRUE
                      /\ effectDue' = TRUE
                      /\ callSendTyping("typingEffect", session, TRUE)
                 ELSE /\ effectDue' = FALSE
                      /\ noCall("typingEffect")
                      /\ UNCHANGED <<isTyping, sent, typed>>
  /\ UNCHANGED <<message, session, quiet>>

\* The timeout armed by the effect expires after 1000 ms without a re-run of
\* the effect: `if (isTyping && session?.id)` on the captured values.
typingTimeout ==
  /\ typingTimeoutRef # NoTimer
  /\ ~effectDue
  /\ Len(sent) < MaxBurst
  /\ typingTimeoutRef' = NoTimer
  /\ quiet' = TRUE
  /\ IF typingTimeoutRef.isTyping /\ typingTimeoutRef.session # NoSession
       THEN /\ isTyping' = FALSE
            /\ effectDue' = (isTyping # FALSE)
            /\ callSendTyping("typingTimeout", typingTimeoutRef.session, FALSE)
       ELSE /\ noCall("typingTimeout")
            /\ UNCHANGED <<isTyping, effectDue, sent, typed>>
  /\ UNCHANGED <<message, session>>

TypingNext ==
  \/ \E len \in 0..MaxText : changeText(len) /\ UNCHANGED chatVars
  \/ \E id \in Sessions : setSession(id) /\ UNCHANGED chatVars
  \/ (typingEffect /\ UNCHANGED chatVars)
  \/ (typingTimeout /\ UNCHANGED chatVars)
  \/ (connect /\ UNCHANGED <<typingVars, chatVars>>)
  \/ \E s \in Sockets : onConnect(s) /\ UNCHANGED <<typingVars, chatVars>>
  \/ \E s \in Sockets : onDisconnect(s, TRUE) /\ UNCHANGED <<typingVars, chatVars>>

SpecTyping == Init /\ [][TypingNext]_vars

\* ---------------------------------------------------------------- history

\* The message the server made of log entry i.
ServerMsg(i) ==
  [id |-> ServerId(i), audio |-> IF serverLog[i].audio THEN "final" ELSE "none",
   createdAt |-> i]

\* The history page of the session: its persisted messages, oldest first.
HistoryPage == [i \in 1..Len(serverLog) |-> ServerMsg(i)]

\* --------------------------------------------- chat screen: message list

\* A handler that appends without looking for the id.
reconcileIncomingNoDedup(prev, msg) ==
  Append(SelectSeq(prev, LAMBDA m : ~isTemp(m)), msg)

\* A handler that keeps the provisional entries.
reconcileIncomingKeepTemp(prev, msg) ==
  IF \E i \in 1..Len(prev) : prev[i].id = msg.id THEN prev ELSE Append(prev, msg)

\* The updater of the onNewMessage handler: drop every 'temp-' entry, then
\* append the message unless its id is there already.
reconcileIncoming(prev, msg) ==
  LET filtered == SelectSeq(prev, LAMBDA m : ~isTemp(m)) IN
    IF \E i \in 1..Len(filtered) : filtered[i].id = msg.id
      THEN filtered
      ELSE Append(filtered, msg)

\* A step of the screen that calls no ChatService method.
screenStep == UNCHANGED transportVars

\* initializeChat up to its first await: setLoading(true), connect(token).
initStart ==
  /\ initPc = "unmounted"
  /\ (connectNoopFields \/ connectNewFields)
  /\ unobserved
  /\ initPc' = "session"
  /\ UNCHANGED <<typingVars, messages, hist, sending, sendPc, sendTemp, now,
                 selectedImage, recordingUri, serverLog, sockQ, optTrack>>
  /\ UNCHANGED <<listenSock, appVars>>

\* The retry button of the error screen: connect(token), getOrCreateSession().
retryStart ==
  /\ initPc = "error"
  /\ (connectNoopFields \/ connectNewFields)
  /\ unobserved
  /\ initPc' = "retrySession"
  /\ UNCHANGED <<typingVars, messages, hist, sending, sendPc, sendTemp, now,
                 selectedImage, recordingUri, serverLog, sockQ, optTrack>>
  /\ UNCHANGED <<listenSock, appVars>>

\* getOrCreateSession() resolves: setSession, joinSession, and getMessages is
\* called (after the 300 ms wait in initializeChat); the effect that follows
\* the render registers the 'new-message' listener on the socket held then
\* (onNewMessage: this.socket.on). Or it rejects and the error screen shows.
sessionLoaded(ok) ==
  /\ initPc \in {"session", "retrySession"}
  /\ IF ok
       THEN /\ session' = "A"
            /\ effectDue' = TRUE
            /\ joinSessionFields("A")
            /\ unobserved
            /\ listenSock' = socket
            /\ initPc' = IF initPc = "session" THEN "history" ELSE "retryHistory"
            /\ hist' = [hist EXCEPT !["init"] = [st |-> "sent", res |-> NoResult, failed |-> FALSE]]
       ELSE /\ initPc' = "error"
            /\ screenStep
            /\ UNCHANGED <<session, effectDue, hist, listenSock>>
  /\ UNCHANGED <<message, isTyping, typingTimeoutRef, sent, quiet, typed>>
  /\ UNCHANGED <<messages, sending, sendPc, sendTemp, now, selectedImage,
                 recordingUri, serverLog, sockQ, optTrack>>
  /\ UNCHANGED appVars

\* The backend answers a getMessages call in flight: the page is the session's
\* log at that moment. `failed` notes that the request did not succeed.
histServe(k, resp) ==
  /\ hist[k].st = "sent"
  /\ hist' = [hist EXCEPT ![k] = [st |-> "served",
                                  res |-> getMessages(resp, HistoryPage),
                                  failed |-> resp # "ok"]]
  /\ screenStep
  /\ UNCHANGED typingVars
  /\ UNCHANGED <<messages, initPc, sending, sendPc, sendTemp, now, selectedImage,
                 recordingUri, serverLog, sockQ, optTrack>>
  /\ UNCHANGED <<listenSock, appVars>>

\* The list after initializeChat's getMessages settles: the page, or [] when
\* it raised.
initMessages(res) == IF res.raised THEN <<>> ELSE res.messages

\* The list after reloadMessages' or the retry handler's getMessages settles:
\* the page, or the list as it is when it raised.
reloadMessagesResult(prev, res) == IF res.raised THEN prev ELSE res.messages

\* initializeChat / the retry handler resume after getMessages.
initHistoryDone ==
  /\ initPc \in {"history", "retryHistory"}
  /\ hist["init"].st = "served"
  /\ messages' = IF initPc = "history"
                   THEN initMessages(hist["init"].res)
                   ELSE reloadMessagesResult(messages, hist["init"].res)
  /\ hist' = [hist EXCEPT !["init"] = HistIdle]
  /\ initPc' = IF initPc = "history" THEN "markRead" ELSE "done"
  /\ optTrack' = IF messages' = messages THEN optTrack ELSE NoTrack
  /\ screenStep
  /\ UNCHANGED typingVars
  /\ UNCHANGED <<sending, sendPc, sendTemp, now, selectedImage, recordingUri,
                 serverLog, sockQ>>
  /\ UNCHANGED <<listenSock, appVars>>

\* initializeChat resumes after markAsRead: setLoading(false).
initMarkRead(ok) ==
  /\ initPc = "markRead"
  /\ initPc' = "done"
  /\ screenStep
  /\ UNCHANGED typingVars
  /\ UNCHANGED <<messages, hist, sending, sendPc, sendTemp, now, selectedImage,
                 recordingUri, serverLog, sockQ, optTrack>>
  /\ UNCHANGED <<listenSock, appVars>>

\* The screen gains focus with a session loaded: reloadMessages starts. When
\* chatService.connected it goes straight to joinSession and getMessages;
\* otherwise it calls connect(token) and waits 500 ms first.
focusStart ==
  /\ session # NoSession
  /\ hist["focus"].st = "idle"
  /\ IF connected
       THEN /\ joinSessionFields(session)
            /\ hist' = [hist EXCEPT !["focus"] = [st |-> "sent", res |-> NoResult, failed |-> FALSE]]
       ELSE /\ (connectNoopFields \/ connectNewFields)
            /\ hist' = [hist EXCEPT !["focus"] = [st |-> "connectWait", res |-> NoResult, failed |-> FALSE]]
  /\ unobserved
  /\ UNCHANGED typingVars
  /\ UNCHANGED <<messages, initPc, sending, sendPc, sendTemp, now, selectedImage,
                 recordingUri, serverLog, sockQ, optTrack>>
  /\ UNCHANGED <<listenSock, appVars>>

\* reloadMessages after the 500 ms wait: joinSession, then getMessages.
focusJoin ==
  /\ hist["focus"].st = "connectWait"
  /\ joinSessionFields(session)
  /\ unobserved
  /\ hist' = [hist EXCEPT !["focus"] = [st |-> "sent", res |-> NoResult, failed |-> FALSE]]
  /\ UNCHANGED typingVars
  /\ UNCHANGED <<messages, initPc, sending, sendPc, sendTemp, now, selectedImage,
                 recordingUri, serverLog, sockQ, optTrack>>
  /\ UNCHANGED <<listenSock, appVars>>

\* reloadMessages resumes after getMessages.
focusHistoryDone ==
  /\ hist["focus"].st = "served"
  /\ messages' = reloadMessagesResult(messages, hist["focus"].res)
  /\ hist' = [hist EXCEPT !["focus"] = [st |-> "markRead", res |-> NoResult, failed |-> FALSE]]
  /\ optTrack' = IF messages' = messages THEN optTrack ELSE NoTrack
  /\ screenStep
  /\ UNCHANGED typingVars
  /\ UNCHANGED <<initPc, sending, sendPc, sendTemp, now, selectedImage,
                 recordingUri, serverLog, sockQ>>
  /\ UNCHANGED <<listenSock, appVars>>

\* reloadMessages resumes after markAsRead and ends.
focusMarkRead(ok) ==
  /\ hist["focus"].st = "markRead"
  /\ hist' = [hist EXCEPT !["focus"] = HistIdle]
  /\ screenStep
  /\ UNCHANGED typingVars
  /\ UNCHANGED <<messages, initPc, sending, sendPc, sendTemp, now, selectedImage,
                 recordingUri, serverLog, sockQ, optTrack>>
  /\ UNCHANGED <<listenSock, appVars>>

\* The number of confirmed (not 'temp-') entries of a list.
Confirmed(seq) == Len(SelectSeq(seq, LAMBDA m : ~isTemp(m)))

\* What the observation of the list becomes when the 'new-message' handler has
\* run for server message i: the followed optimistic insert got its
\* counterpart, or a message the list held already came again, or another
\* message came.
trackAfterIncoming(i) ==
  IF optTrack.phase = "appended" /\ serverLog[i].from = optTrack.n
    THEN [optTrack EXCEPT !.phase = "reconciled", !.by = i]
    ELSE IF \E j \in 1..Len(messages) : messages[j].id = ServerId(i)
      THEN [phase |-> "redelivered", n |-> 0, lenBefore |-> Len(messages),
            confirmedBefore |-> Confirmed(messages), by |-> i]
      ELSE [phase |-> "incoming", n |-> 0, lenBefore |-> Len(messages),
            confirmedBefore |-> Confirmed(messages), by |-> i]

\* A 'new-message' event reaches the listener, over the socket it was
\* registered on: `if (data.sessionId === session.id)` the list is reconciled
\* with data.message. Events of the session carry a persisted message, in any
\* order and any number of times.
newMessageFields(sessionId, i) ==
  /\ session # NoSession
  /\ listenSock # NoSocket
  /\ sockState[listenSock] = "connected"
  /\ i \in 1..Len(serverLog)
  /\ IF sessionId = session
       THEN /\ messages' = reconcileIncoming(messages, ServerMsg(i))
            /\ optTrack' = trackAfterIncoming(i)
       ELSE UNCHANGED <<messages, optTrack>>
  /\ screenStep
  /\ UNCHANGED typingVars
  /\ UNCHANGED <<initPc, hist, sending, sendPc, sendTemp, now, selectedImage,
                 recordingUri, serverLog, sockQ>>

newMessage(sessionId, i) ==
  /\ newMessageFields(sessionId, i)
  /\ UNCHANGED <<listenSock, appVars>>

\* The same event, with a note of which event it was.
newMessageObserved(sessionId, i) ==
  /\ newMessageFields(sessionId, i)
  /\ lastInbound' = [ev |-> "new-message", sessionId |-> sessionId, self |-> FALSE,
                  flag |-> FALSE, seq |-> 1 - lastInbound.seq]
  /\ UNCHANGED <<listenSock, effectVars, listenVars, authVars, otherUserTyping,
                 adminVars>>

\* A handler that takes the indicator of any session.
userTypingAppliesAnySession(sessionId, self) == ~self

\* The test of the onTyping handler:
\* `data.sessionId === session.id && data.userId !== user?.id`.
userTypingApplies(sessionId, self) == sessionId = session /\ ~self

\* A 'user-typing' event reaches the listener, over the socket it was
\* registered on; `self` says that data.userId is the local user's id.
userTyping(sessionId, self, flag) ==
  /\ session # NoSession
  /\ listenSock # NoSocket
  /\ sockState[listenSock] = "connected"
  /\ otherUserTyping' = IF userTypingApplies(sessionId, self) THEN flag
                                                              ELSE otherUserTyping
  /\ lastInbound' = [ev |-> "user-typing", sessionId |-> sessionId, self |-> self,
                  flag |-> flag, seq |-> 1 - lastInbound.seq]
  /\ screenStep
  /\ UNCHANGED <<typingVars, screenVars, effectVars, listenVars, authVars, adminVars>>

\* The other party's message is persisted by the backend.
otherPartySends ==
  /\ Len(serverLog) < MaxServer
  /\ serverLog' = Append(serverLog, [from |-> 0, audio |-> FALSE])
  /\ screenStep
  /\ UNCHANGED typingVars
  /\ UNCHANGED <<messages, initPc, hist, sending, sendPc, sendTemp, now,
                 selectedImage, recordingUri, sockQ, optTrack>>
  /\ UNCHANGED <<listenSock, appVars>>

\* The backend persists a message it received by 'send-message'.
serverReceives(e) ==
  /\ e \in sockQ
  /\ Len(serverLog) < MaxServer
  /\ serverLog' = Append(serverLog, [from |-> e.n, audio |-> e.audio])
  /\ sockQ' = sockQ \ {e}
  /\ screenStep
  /\ UNCHANGED typingVars
  /\ UNCHANGED <<messages, initPc, hist, sending, sendPc, sendTemp, now,
                 selectedImage, recordingUri, optTrack>>
  /\ UNCHANGED <<listenSock, appVars>>

\* -------------------------------------------------- chat screen: sending

\* The chat is rendered, not the loading or the error screen: loading is
\* false and a session is loaded.
chatShown == initPc = "done" /\ session # NoSession

\* The user picks an image or takes a photo: setSelectedImage(uri).
pickImage ==
  /\ chatShown
  /\ ~selectedImage
  /\ selectedImage' = TRUE
  /\ screenStep
  /\ UNCHANGED typingVars
  /\ UNCHANGED <<messages, initPc, hist, sending, sendPc, sendTemp, now,
                 recordingUri, serverLog, sockQ, optTrack>>
  /\ UNCHANGED <<listenSock, appVars>>

\* The user records a voice note: setRecordingUri(uri).
recordVoice ==
  /\ chatShown
  /\ ~recordingUri
  /\ recordingUri' = TRUE
  /\ screenStep
  /\ UNCHANGED typingVars
  /\ UNCHANGED <<messages, initPc, hist, sending, sendPc, sendTemp, now,
                 selectedImage, serverLog, sockQ, optTrack>>
  /\ UNCHANGED <<listenSock, appVars>>

\* The user edits the text while the chat is shown.
typeText(len) ==
  /\ chatShown
  /\ changeTextFields(len)
  /\ screenStep
  /\ UNCHANGED chatVars

\* The optimistic entry handleSend builds.
optimisticMessage(n, audio, t) ==
  [id |-> TempId(n), audio |-> IF audio THEN "local" ELSE "none", createdAt |-> t]

\* `new Date()` on the device, on the scale of the backend's createdAt (the
\* i-th persisted message has createdAt i): the device's clock is behind the
\* backend's, or in step with it.
ClockReadings == {0, Len(serverLog) + 1}

\* A list kept sorted by createdAt: the entry goes after the entries that are
\* not younger.
appendOptimisticByTime(prev, m) ==
  LET k == Cardinality({i \in 1..Len(prev) : prev[i].createdAt <= m.createdAt})
  IN SubSeq(prev, 1, k) \o <<m>> \o SubSeq(prev, k + 1, Len(prev))

\* setMessages((prev) => [...prev, optimisticMessage])
appendOptimistic(prev, m) == Append(prev, m)

\* setMessages(prev => prev.map(msg => msg.id === tempMessageId
\*   ? { ...msg, audioUrl: finalAudioUrl } : msg))
setFinalAudio(prev, n) ==
  [i \in 1..Len(prev) |->
     IF prev[i].id = TempId(n) THEN [prev[i] EXCEPT !.audio = "final"] ELSE prev[i]]

\* setMessages(prev => prev.filter(msg => msg.id !== tempMessageId))
removeOptimistic(prev, n) == SelectSeq(prev, LAMBDA m : m.id # TempId(n))


\* A send that emits on the socket and posts as well.
dispatchSendBoth(snd, restPc) ==
  /\ sockQ' = IF canEmit THEN sockQ \cup {[n |-> snd.n, audio |-> snd.audio]}
                         ELSE sockQ
  /\ sendPc' = restPc
  /\ screenStep

\* `if (chatService.connected) sendMessageSocket(...) else await sendMessage(...)`
\* for the send `snd`; `restPc` is where handleSend waits for the REST call.
dispatchSend(snd, restPc) ==
  IF connected
    THEN /\ sockQ' = IF canEmit THEN sockQ \cup {[n |-> snd.n, audio |-> snd.audio]}
                                 ELSE sockQ
         /\ sendPc' = "markRead"
         /\ screenStep
    ELSE /\ screenStep
         /\ sendPc' = restPc
         /\ UNCHANGED sockQ

\* handleSend from the voice-note block on: the recording state is cleared, the
\* optimistic entry is appended, and either the audio upload is awaited or the
\* message is sent.
sendBody(snd) ==
  /\ recordingUri' = IF snd.audio THEN FALSE ELSE recordingUri
  /\ now' = now + 1
  /\ sendTemp' = [snd EXCEPT !.n = now + 1]
  /\ \E t \in ClockReadings :
       messages' = appendOptimistic(messages, optimisticMessage(now + 1, snd.audio, t))
  /\ optTrack' = [phase |-> "appended", n |-> now + 1, lenBefore |-> Len(messages),
                   confirmedBefore |-> Confirmed(messages), by |-> 0]
  /\ IF snd.audio
       THEN /\ sendPc' = "audio"
            /\ screenStep
            /\ UNCHANGED sockQ
       ELSE dispatchSend([snd EXCEPT !.n = now + 1], "rest")

\* handleSend up to its first await: the input is cleared and the lock taken;
\* with an image selected the upload is awaited, otherwise the body runs on.
handleSend ==
  /\ chatShown
  /\ (message > 0 \/ selectedImage \/ recordingUri)
  /\ session # NoSession
  /\ ~sending
  /\ now < MaxSends
  /\ message' = 0
  /\ effectDue' = (effectDue \/ message # 0)
  /\ selectedImage' = FALSE
  /\ sending' = TRUE
  /\ LET snd == [n |-> 0, text |-> message, image |-> selectedImage,
                  audio |-> recordingUri] IN
       IF selectedImage
         THEN /\ sendPc' = "image"
              /\ sendTemp' = snd
              /\ screenStep
              /\ UNCHANGED <<messages, now, recordingUri, sockQ, optTrack>>
         ELSE sendBody(snd)
  /\ UNCHANGED <<session, isTyping, typingTimeoutRef, sent, quiet, typed>>
  /\ UNCHANGED <<initPc, hist, serverLog>>
  /\ UNCHANGED <<listenSock, appVars>>

\* uploadImage settles. Rejected: alert, the lock is released and the image is
\* put back. Resolved: the body runs on.
imageUploadDone(ok) ==
  /\ sendPc = "image"
  /\ IF ok
       THEN /\ sendBody(sendTemp)
            /\ UNCHANGED <<sending, selectedImage>>
       ELSE /\ sending' = FALSE
            /\ selectedImage' = TRUE
            /\ sendPc' = "idle"
            /\ sendTemp' = NoSend
            /\ screenStep
            /\ UNCHANGED <<messages, now, recordingUri, sockQ, optTrack>>
  /\ UNCHANGED typingVars
  /\ UNCHANGED <<initPc, hist, serverLog>>
  /\ UNCHANGED <<listenSock, appVars>>

\* uploadAudio settles. Resolved: the entry gets the final URL and the message
\* is sent. Rejected: the optimistic entry is removed, alert, lock released.
audioUploadDone(ok) ==
  /\ sendPc = "audio"
  /\ IF ok
       THEN /\ messages' = setFinalAudio(messages, sendTemp.n)
            /\ dispatchSend(sendTemp, "restAudio")
            /\ UNCHANGED <<sending, sendTemp, optTrack>>
       ELSE /\ messages' = removeOptimistic(messages, sendTemp.n)
            /\ optTrack' = IF messages' = messages THEN optTrack ELSE NoTrack
            /\ sending' = FALSE
            /\ sendPc' = "idle"
            /\ sendTemp' = NoSend
            /\ screenStep
            /\ UNCHANGED sockQ
  /\ UNCHANGED typingVars
  /\ UNCHANGED <<initPc, hist, now, selectedImage, recordingUri, serverLog>>
  /\ UNCHANGED <<listenSock, appVars>>

\* The input as handleSend's outer catch block restores it.
restoreInput ==
  /\ message' = sendTemp.text
  /\ effectDue' = (effectDue \/ message # sendTemp.text)
  /\ selectedImage' = IF sendTemp.image THEN TRUE ELSE selectedImage
  /\ recordingUri' = IF sendTemp.audio THEN TRUE ELSE recordingUri
  /\ UNCHANGED <<session, isTyping, typingTimeoutRef, sent, quiet, typed>>

\* Whether the catch block that handles a rejected POST /chat/message shows an
\* alert: the inner catch of the voice-note block does (Alert.alert('Upload
\* Error', ...)), the outer catch only logs (console.error).
restFailureAlerts(pc) == pc = "restAudio"

\* POST /chat/message settles (the transport was not connected). Resolved: the
\* backend has persisted the message; handleSend goes on to markAsRead.
\* Rejected: after an audio upload the inner catch removes the optimistic entry;
\* otherwise the outer catch restores the input; the lock is released.
restSendDone(ok) ==
  /\ sendPc \in {"rest", "restAudio"}
  /\ IF ok
       THEN /\ Len(serverLog) < MaxServer
            /\ serverLog' = Append(serverLog, [from |-> sendTemp.n, audio |-> sendTemp.audio])
            /\ sendPc' = "markRead"
            /\ UNCHANGED <<messages, sending, sendTemp, optTrack, selectedImage,
                           recordingUri>>
            /\ UNCHANGED typingVars
       ELSE /\ sending' = FALSE
            /\ sendPc' = "idle"
            /\ sendTemp' = NoSend
            /\ UNCHANGED serverLog
            /\ IF sendPc = "restAudio"
                 THEN /\ messages' = removeOptimistic(messages, sendTemp.n)
                      /\ optTrack' = IF messages' = messages THEN optTrack ELSE NoTrack
                      /\ UNCHANGED <<selectedImage, recordingUri>>
                      /\ UNCHANGED typingVars
                 ELSE /\ restoreInput
                      /\ UNCHANGED <<messages, optTrack>>
  /\ screenStep
  /\ UNCHANGED <<initPc, hist, now, sockQ>>
  /\ UNCHANGED <<listenSock, appVars>>

\* handleSend resumes after `await chatService.markAsRead(session.id)`, which
\* is inside the try block. Rejected: the outer catch restores the input.
\* Either way the lock is released.
sendMarkRead(ok) ==
  /\ sendPc = "markRead"
  /\ screenStep
  /\ sending' = FALSE
  /\ sendPc' = "idle"
  /\ sendTemp' = NoSend
  /\ IF ok
       THEN /\ UNCHANGED <<selectedImage, recordingUri>>
            /\ UNCHANGED typingVars
       ELSE restoreInput
  /\ UNCHANGED <<messages, initPc, hist, now, serverLog, sockQ, optTrack>>
  /\ UNCHANGED <<listenSock, appVars>>

\* A suggestion chip of the empty chat is tapped (the chips are rendered while
\* messages.length === 0): handleSendSuggestion takes the lock, appends the
\* optimistic entry and sends. Connected, it emits and releases the lock in
\* the same run; otherwise it awaits the REST call.
handleSendSuggestion ==
  /\ chatShown
  /\ Len(messages) = 0
  /\ session # NoSession
  /\ ~sending
  /\ now < MaxSends
  /\ now' = now + 1
  /\ \E t \in ClockReadings :
       messages' = appendOptimistic(messages, optimisticMessage(now + 1, FALSE, t))
  /\ optTrack' = [phase |-> "appended", n |-> now + 1, lenBefore |-> Len(messages),
                   confirmedBefore |-> Confirmed(messages), by |-> 0]
  /\ IF connected
       THEN /\ sockQ' = IF canEmit THEN sockQ \cup {[n |-> now + 1, audio |-> FALSE]}
                                    ELSE sockQ
            /\ sending' = FALSE
            /\ UNCHANGED <<sendPc, sendTemp>>
       ELSE /\ sending' = TRUE
            /\ sendPc' = "suggest"
            /\ sendTemp' = [NoSend EXCEPT !.n = now + 1]
            /\ UNCHANGED sockQ
  /\ screenStep
  /\ UNCHANGED typingVars
  /\ UNCHANGED <<initPc, hist, selectedImage, recordingUri, serverLog>>
  /\ UNCHANGED <<listenSock, appVars>>

\* handleSendSuggestion's `await chatService.sendMessage(...)` settles.
\* Resolved: setSending(false). Rejected: the rejection leaves the handler,
\* which has no try block, and nothing after the await runs.
suggestionPostDone(ok) ==
  /\ sendPc = "suggest"
  /\ IF ok
       THEN /\ Len(serverLog) < MaxServer
            /\ serverLog' = Append(serverLog, [from |-> sendTemp.n, audio |-> FALSE])
            /\ sending' = FALSE
       ELSE UNCHANGED <<serverLog, sending>>
  /\ sendPc' = "idle"
  /\ sendTemp' = NoSend
  /\ screenStep
  /\ UNCHANGED typingVars
  /\ UNCHANGED <<messages, initPc, hist, now, selectedImage, recordingUri, sockQ,
                 optTrack>>
  /\ UNCHANGED <<listenSock, appVars>>

\* The transport as the chat screen meets it: the events of its sockets.
chatTransport ==
  /\ \E s \in Sockets : onConnectFields(s) \/ onDisconnectFields(s, TRUE)
  /\ unobserved
  /\ UNCHANGED <<typingVars, chatVars>>

ChatNext ==
  \/ initStart
  \/ retryStart
  \/ \E ok \in BOOLEAN : sessionLoaded(ok)
  \/ \E k \in {"init", "focus"}, resp \in Responses : histServe(k, resp)
  \/ initHistoryDone
  \/ \E ok \in BOOLEAN : initMarkRead(ok)
  \/ focusStart
  \/ focusJoin
  \/ focusHistoryDone
  \/ \E ok \in BOOLEAN : focusMarkRead(ok)
  \/ \E sessionId \in Sessions, i \in 1..MaxServer : newMessage(sessionId, i)
  \/ otherPartySends
  \/ \E e \in sockQ : serverReceives(e)
  \/ \E len \in 0..MaxText : typeText(len)
  \/ handleSend
  \/ \E ok \in BOOLEAN : restSendDone(ok)
  \/ \E resp \in Responses : sendMarkRead(~markAsReadRaises(resp))
  \/ chatTransport

\* The message list of the chat screen: history loads, pushes and text sends.
SpecChat == Init /\ [][ChatNext]_vars

SendNext ==
  \/ initStart
  \/ \E ok \in BOOLEAN : sessionLoaded(ok)
  \/ \E resp \in Responses : histServe("init", resp)
  \/ initHistoryDone
  \/ \E ok \in BOOLEAN : initMarkRead(ok)
  \/ \E i \in 1..MaxServer : newMessage("A", i)
  \/ \E e \in sockQ : serverReceives(e)
  \/ \E len \in 0..MaxText : typeText(len)
  \/ pickImage
  \/ recordVoice
  \/ handleSend
  \/ \E ok \in BOOLEAN : imageUploadDone(ok)
  \/ \E ok \in BOOLEAN : audioUploadDone(ok)
  \/ \E ok \in BOOLEAN : restSendDone(ok)
  \/ \E resp \in Responses : sendMarkRead(~markAsReadRaises(resp))
  \/ chatTransport

\* Sending from the chat screen, attachments included.
SpecSend == Init /\ [][SendNext]_vars

SuggestNext ==
  \/ initStart
  \/ \E ok \in BOOLEAN : sessionLoaded(ok)
  \/ \E resp \in Responses : histServe("init", resp)
  \/ initHistoryDone
  \/ \E ok \in BOOLEAN : initMarkRead(ok)
  \/ \E i \in 1..MaxServer : newMessage("A", i)
  \/ \E e \in sockQ : serverReceives(e)
  \/ \E len \in 0..MaxText : typeText(len)
  \/ recordVoice
  \/ handleSend
  \/ \E ok \in BOOLEAN : audioUploadDone(ok)
  \/ \E ok \in BOOLEAN : restSendDone(ok)
  \/ \E resp \in Responses : sendMarkRead(~markAsReadRaises(resp))
  \/ handleSendSuggestion
  \/ \E ok \in BOOLEAN : suggestionPostDone(ok)
  \/ chatTransport

\* Sending from the chat screen by the input bar (text and voice notes) and by
\* the suggestion chips.
SpecSuggest == Init /\ [][SuggestNext]_vars

InboundNext ==
  \/ initStart
  \/ \E ok \in BOOLEAN : sessionLoaded(ok)
  \/ \E resp \in Responses : histServe("init", resp)
  \/ initHistoryDone
  \/ \E ok \in BOOLEAN : initMarkRead(ok)
  \/ otherPartySends
  \/ \E e \in sockQ : serverReceives(e)
  \/ \E len \in 0..MaxText : typeText(len)
  \/ handleSend
  \/ \E ok \in BOOLEAN : restSendDone(ok)
  \/ \E resp \in Responses : sendMarkRead(~markAsReadRaises(resp))
  \/ \E sessionId \in Sessions, i \in 1..MaxServer : newMessageObserved(sessionId, i)
  \/ \E sessionId \in Sessions, self \in BOOLEAN, flag \in BOOLEAN :
       userTyping(sessionId, self, flag)
  \/ chatTransport

\* The chat screen's listeners under inbound events of any session.
SpecInbound == Init /\ [][InboundNext]_vars

DeliverNext ==
  \/ initStart
  \/ \E ok \in BOOLEAN : sessionLoaded(ok)
  \/ \E resp \in Responses : histServe("init", resp)
  \/ initHistoryDone
  \/ \E ok \in BOOLEAN : initMarkRead(ok)
  \/ \E i \in 1..MaxServer : newMessage("A", i)
  \/ \E e \in sockQ : serverReceives(e)
  \/ \E len \in 0..MaxText : typeText(len)
  \/ handleSend
  \/ \E ok \in BOOLEAN : restSendDone(ok)
  \/ \E resp \in Responses : sendMarkRead(~markAsReadRaises(resp))
  \/ chatTransport

\* What is bound to happen: every awaited call of the screen settles and the
\* screen resumes after it, the backend persists what it received, and the
\* 'new-message' event of a persisted message is delivered if the listener's
\* socket is connected again and again. Nothing makes the user act or the
\* network connect.
DeliverFair ==
  /\ WF_vars(\E ok \in BOOLEAN : sessionLoaded(ok))
  /\ WF_vars(\E resp \in Responses : histServe("init", resp))
  /\ WF_vars(initHistoryDone)
  /\ WF_vars(\E ok \in BOOLEAN : initMarkRead(ok))
  /\ WF_vars(\E ok \in BOOLEAN : restSendDone(ok))
  /\ WF_vars(\E resp \in Responses : sendMarkRead(~markAsReadRaises(resp)))
  /\ WF_vars(\E e \in sockQ : serverReceives(e))
  /\ \A i \in 1..MaxServer : SF_vars(newMessage("A", i))

\* Text sends and their confirmation, with what is bound to happen.
SpecDeliver == Init /\ [][DeliverNext]_vars /\ DeliverFair

\* ------------------------------------- chat screen: runs of its effects

\* The initializeChat / reloadMessages calls followed.
MaxRuns == 3

\* The page GET /chat/sessions/{id}/messages holds for a session.
SessionPage(sid) ==
  IF sid = "A" THEN <<[id |-> ServerId(1), audio |-> "none", createdAt |-> 1]>>
               ELSE <<[id |-> ServerId(2), audio |-> "none", createdAt |-> 2]>>

\* What the runs of the effects leave alone.
effectFrame ==
  UNCHANGED <<message, isTyping, typingTimeoutRef, sent, quiet, typed, initPc, hist,
              sending, sendPc, sendTemp, now, selectedImage, recordingUri,
              listenSock, serverLog, sockQ, optTrack, listenVars, authVars,
              inboundVars, adminVars>>

\* A state setter called by an asynchronous continuation: React applies it
\* while the component is mounted and drops it afterwards.
setState(old, new) == IF mounted THEN new ELSE old

\* The run moves on.
stepRun(r, pc) == runs' = [runs EXCEPT ![r].pc = pc]

\* The init effect runs: initializeChat starts for the session of the route,
\* setLoading(true), setError(null), connect(token), and awaits.
startInit(sid) ==
  /\ routeSession' = sid
  /\ loading' = TRUE
  /\ error' = FALSE
  /\ (connectNoopFields \/ connectNewFields)
  /\ unobserved
  /\ runs' = Append(runs, [kind |-> "init", target |-> sid, pc |-> "session"])
  /\ UNCHANGED <<session, effectDue, messages>>
  /\ effectFrame

\* The screen mounts: the init effect runs for the first time.
mountScreen(sid) ==
  /\ ~mounted
  /\ runs = <<>>
  /\ mounted' = TRUE
  /\ startInit(sid)

\* A dependency of the init effect changes (token, routeParams.sessionId,
\* user.role): its cleanup, which is empty, runs and the effect runs again.
depsChange(sid) ==
  /\ mounted
  /\ sid # routeSession
  /\ Len(runs) < MaxRuns
  /\ UNCHANGED mounted
  /\ startInit(sid)

\* The screen unmounts: the cleanup of the init effect is empty.
unmountScreen ==
  /\ mounted
  /\ mounted' = FALSE
  /\ screenStep
  /\ UNCHANGED <<session, effectDue, messages, routeSession, loading, error, runs>>
  /\ effectFrame

\* The focus callback runs (focus gained, or session?.id changed): a
\* reloadMessages call starts for the session loaded.
focusReload ==
  /\ mounted
  /\ session # NoSession
  /\ Len(runs) < MaxRuns
  /\ IF connected
       THEN /\ joinSessionFields(session)
            /\ runs' = Append(runs, [kind |-> "reload", target |-> session, pc |-> "history"])
       ELSE /\ (connectNoopFields \/ connectNewFields)
            /\ runs' = Append(runs, [kind |-> "reload", target |-> session, pc |-> "connectWait"])
  /\ unobserved
  /\ UNCHANGED <<session, effectDue, messages, mounted, routeSession, loading, error>>
  /\ effectFrame

\* A reloadMessages call resumes after its 500 ms wait: joinSession.
runJoin(r) ==
  /\ runs[r].pc = "connectWait"
  /\ joinSessionFields(runs[r].target)
  /\ unobserved
  /\ stepRun(r, "history")
  /\ UNCHANGED <<session, effectDue, messages, mounted, routeSession, loading, error>>
  /\ effectFrame

\* An initializeChat call resumes with its session (or the error of fetching
\* it): setSession, joinSession; or setError, setLoading(false).
runSessionLoaded(r, ok) ==
  /\ runs[r].pc = "session"
  /\ IF ok
       THEN /\ session' = setState(session, runs[r].target)
            /\ effectDue' = setState(effectDue, TRUE)
            /\ joinSessionFields(runs[r].target)
            /\ unobserved
            /\ stepRun(r, "history")
            /\ UNCHANGED <<loading, error>>
       ELSE /\ error' = setState(error, TRUE)
            /\ loading' = setState(loading, FALSE)
            /\ screenStep
            /\ stepRun(r, "done")
            /\ UNCHANGED <<session, effectDue>>
  /\ UNCHANGED <<messages, mounted, routeSession>>
  /\ effectFrame

\* A call resumes after getMessages: setMessages.
runHistoryDone(r, resp) ==
  /\ runs[r].pc = "history"
  /\ LET res == getMessages(resp, SessionPage(runs[r].target)) IN
       messages' = setState(messages,
                            IF runs[r].kind = "init"
                              THEN initMessages(res)
                              ELSE reloadMessagesResult(messages, res))
  /\ stepRun(r, "markRead")
  /\ screenStep
  /\ UNCHANGED <<session, effectDue, mounted, routeSession, loading, error>>
  /\ effectFrame

\* A call resumes after markAsRead: initializeChat does setLoading(false).
runMarkRead(r) ==
  /\ runs[r].pc = "markRead"
  /\ loading' = IF runs[r].kind = "init" THEN setState(loading, FALSE) ELSE loading
  /\ stepRun(r, "done")
  /\ screenStep
  /\ UNCHANGED <<session, effectDue, messages, mounted, routeSession, error>>
  /\ effectFrame

\* The call is no longer wanted: the screen is unmounted, or the init effect
\* has run again since the call started.
stale(r) ==
  \/ ~mounted
  \/ \E q \in (r + 1)..Len(runs) : runs[q].kind = "init"

EffectNext ==
  \/ \E sid \in Sessions : mountScreen(sid)
  \/ \E sid \in Sessions : depsChange(sid)
  \/ unmountScreen
  \/ focusReload
  \/ \E r \in 1..Len(runs) : runJoin(r)
  \/ \E r \in 1..Len(runs), ok \in BOOLEAN : runSessionLoaded(r, ok)
  \/ \E r \in 1..Len(runs), resp \in Responses : runHistoryDone(r, resp)
  \/ \E r \in 1..Len(runs) : runMarkRead(r)
  \/ chatTransport

\* The asynchronous effects of the chat screen and what their calls apply.
SpecEffect == Init /\ [][EffectNext]_vars

\* ------------------------------------------- ChatService: subscriptions

\* onNewMessage / onTyping / onMessagesRead / onBalanceUpdated(callback):
\* without a socket nothing is registered and the disposer returned does
\* nothing; otherwise the callback is registered on the socket held now and
\* the disposer returned calls this.socket?.off.
subscribe(cb) ==
  /\ subs[cb] = "none"
  /\ IF socket = NoSocket
       THEN /\ subs' = [subs EXCEPT ![cb] = "noop"]
            /\ UNCHANGED handlers
       ELSE /\ subs' = [subs EXCEPT ![cb] = "off"]
            /\ handlers' = handlers \cup {<<socket, cb>>}
  /\ invoked' = NoEvent
  /\ UNCHANGED <<transportVars, typingVars, screenVars, effectVars, authVars, inboundVars, adminVars>>

\* The disposer on...(callback) returned is called: `() => {}`, or
\* `this.socket?.off(event, callback)` on the socket the service holds then.
dispose(cb) ==
  /\ subs[cb] \in {"noop", "off"}
  /\ handlers' = IF subs[cb] = "off" /\ socket # NoSocket
                    THEN handlers \ {<<socket, cb>>}
                    ELSE handlers
  /\ subs' = [subs EXCEPT ![cb] = "disposed"]
  /\ invoked' = NoEvent
  /\ UNCHANGED <<transportVars, typingVars, screenVars, effectVars, authVars, inboundVars, adminVars>>

\* An inbound event of the subscribed kind arrives on a connected socket:
\* socket.io runs the listeners registered on that socket.
inbound(s) ==
  /\ sockState[s] = "connected"
  /\ invoked' = [sock |-> s, cbs |-> {cb \in Callbacks : <<s, cb>> \in handlers}]
  /\ UNCHANGED <<handlers, subs>>
  /\ UNCHANGED <<transportVars, typingVars, screenVars, effectVars, authVars, inboundVars, adminVars>>

\* A call or event of the service itself: the listeners stay where they are.
listenTransport ==
  /\ \/ connect
     \/ disconnect
     \/ \E s \in Sockets : onConnect(s)
     \/ \E s \in Sockets : onDisconnect(s, TRUE)
  /\ invoked' = NoEvent
  /\ UNCHANGED <<handlers, subs>>
  /\ UNCHANGED <<typingVars, screenVars, effectVars, authVars, inboundVars, adminVars>>

ListenNext ==
  \/ \E cb \in Callbacks : subscribe(cb)
  \/ \E cb \in Callbacks : dispose(cb)
  \/ \E s \in Sockets : inbound(s)
  \/ listenTransport

\* The subscriptions of ChatService over connects and disconnects.
SpecListen == Init /\ [][ListenNext]_vars

\* ------------------------------------------ AuthProvider and the socket

\* login(): setToken, setUser. The socket effect runs with isAuthenticated
\* true: unless socketConnectedRef.current, it arms the 1 s connect timeout.
login(r) ==
  /\ ~authed
  /\ authed' = TRUE
  /\ role' = r
  /\ connectTimeout' = ~socketConnectedRef
  /\ observe(Op("login", socket, NoSession), <<>>)
  /\ UNCHANGED <<serviceVars, wasConnected, discCalled, pendingJoin>>
  /\ UNCHANGED <<socketConnectedRef, typingVars, screenVars, effectVars, listenVars, inboundVars, adminVars>>

\* The connect timeout fires: chatService.connect(token), and the ref is set.
connectTimeoutFires ==
  /\ connectTimeout
  /\ connect
  /\ connectTimeout' = FALSE
  /\ socketConnectedRef' = TRUE
  /\ UNCHANGED <<authed, role, typingVars, screenVars, effectVars, listenVars, inboundVars, adminVars>>

\* logout(): setToken(null), setUser(null). The cleanup of the socket effect
\* clears the timeout; the effect runs with isAuthenticated false and calls
\* chatService.disconnect() if socketConnectedRef.current, else nothing.
logout ==
  /\ authed
  /\ authed' = FALSE
  /\ role' = NoRole
  /\ connectTimeout' = FALSE
  /\ socketConnectedRef' = FALSE
  /\ IF socketConnectedRef
       THEN disconnect
       ELSE /\ observe(Op("logout", socket, NoSession), <<>>)
            /\ UNCHANGED <<serviceVars, wasConnected, discCalled, pendingJoin>>
  /\ UNCHANGED <<typingVars, screenVars, effectVars, listenVars, inboundVars, adminVars>>

\* What a chat screen does with the service while the user is logged in:
\* connect(token) and joinSession; and the events of the sockets at any time.
authTransport ==
  /\ \/ authed /\ connect
     \/ authed /\ \E sessionId \in Sessions : joinSession(sessionId)
     \/ \E s \in Sockets : onConnect(s)
     \/ \E s \in Sockets, retry \in BOOLEAN : onDisconnect(s, retry)
  /\ UNCHANGED <<typingVars, chatVars>>

AuthNext ==
  \/ \E r \in Roles : login(r)
  \/ connectTimeoutFires
  \/ logout
  \/ authTransport

\* The AuthProvider's socket effect and the service, with the one thing that
\* is bound to happen: an armed timeout fires.
SpecAuth == Init /\ [][AuthNext]_vars /\ WF_vars(connectTimeoutFires)

\* ---------------------------------------------------- admin sessions list

\* a.lastMessageAt ? time(a.lastMessageAt) : time(a.createdAt); the sessions
\* were created before any message, at time 0.
sessionTime(a) == a.lastMessageAt

\* Array.prototype.sort with (a, b) => timeB - timeA: most recent first, equal
\* times in the order they had.
RECURSIVE sortSessions(_)
sortSessions(seq) ==
  IF Len(seq) <= 1 THEN seq
  ELSE LET rest == sortSessions(Tail(seq))
           k == Cardinality({i \in 1..Len(rest) :
                               sessionTime(rest[i]) > sessionTime(seq[1])})
       IN SubSeq(rest, 1, k) \o <<seq[1]>> \o SubSeq(rest, k + 1, Len(rest))

\* The list entry the handler makes of message k.
listedMessage(k) == [id |-> k, senderType |-> allLog[k].senderType, isRead |-> FALSE]

\* GET /chat/sessions/all: every session with its messages.
serverSessions ==
  [j \in 1..Cardinality(Sessions) |->
     LET sid == IF j = 1 THEN "A" ELSE "B"
         own == SelectSeq([k \in 1..Len(allLog) |-> k],
                          LAMBDA k : allLog[k].sessionId = sid)
     IN [id |-> sid,
         lastMessageAt |-> IF own = <<>> THEN 0 ELSE own[Len(own)],
         messages |-> [i \in 1..Len(own) |-> listedMessage(own[i])]]]

\* The updater of the list's onNewMessage handler: the session of the event
\* gets the message appended and its lastMessageAt set; the list is sorted.
addMessage(prevSessions, sessionId, k) ==
  sortSessions(
    [j \in 1..Len(prevSessions) |->
       IF prevSessions[j].id = sessionId
         THEN [prevSessions[j] EXCEPT !.lastMessageAt = k,
                                      !.messages = Append(@, listedMessage(k))]
         ELSE prevSessions[j]])

\* getUnreadCount(session)
getUnreadCount(ses) ==
  Len(SelectSeq(ses.messages, LAMBDA msg : ~msg.isRead /\ msg.senderType = "USER"))

\* What the admin list leaves alone.
adminFrame ==
  UNCHANGED <<typingVars, screenVars, effectVars, listenVars, authVars, inboundVars>>

\* The screen mounts: the socket effect connects unless chatService.connected,
\* calls joinAllSessions and registers the 'new-message' listener on the socket
\* held then; the load effect calls loadSessions.
adminMount ==
  /\ adminLoad.st = "unmounted"
  /\ IF connected THEN UNCHANGED serviceVars
                   ELSE (connectNoopFields \/ connectNewFields)
  /\ unobserved
  /\ adminSock' = socket'
  /\ adminLoad' = [st |-> "sent", ok |-> FALSE, data |-> <<>>]
  /\ UNCHANGED <<sessions, allLog>>
  /\ adminFrame

\* The screen gains focus again, or the list is pulled down: loadSessions
\* (followed one call at a time).
reloadSessions ==
  /\ adminLoad.st = "idle"
  /\ adminLoad' = [st |-> "sent", ok |-> FALSE, data |-> <<>>]
  /\ UNCHANGED <<sessions, adminSock, allLog>>
  /\ screenStep
  /\ adminFrame

\* The backend answers the call in flight with the sessions as they are at
\* that moment, or the call fails.
sessionsServe(ok) ==
  /\ adminLoad.st = "sent"
  /\ adminLoad' = [st |-> "served", ok |-> ok,
                    data |-> IF ok THEN serverSessions ELSE <<>>]
  /\ UNCHANGED <<sessions, adminSock, allLog>>
  /\ screenStep
  /\ adminFrame

\* loadSessions resumes: `if (response.success && response.data)` the sorted
\* answer replaces the list; a failure is logged.
loadSessionsDone ==
  /\ adminLoad.st = "served"
  /\ sessions' = IF adminLoad.ok THEN sortSessions(adminLoad.data) ELSE sessions
  /\ adminLoad' = [st |-> "idle", ok |-> FALSE, data |-> <<>>]
  /\ UNCHANGED <<adminSock, allLog>>
  /\ screenStep
  /\ adminFrame

\* The backend persists a message of a session.
persistMessage(sessionId, senderType) ==
  /\ Len(allLog) < MaxServer
  /\ allLog' = Append(allLog, [sessionId |-> sessionId, senderType |-> senderType])
  /\ UNCHANGED <<sessions, adminLoad, adminSock>>
  /\ screenStep
  /\ adminFrame

\* The number of messages the list holds.
RECURSIVE listed(_)
listed(seq) == IF seq = <<>> THEN 0 ELSE Len(seq[1].messages) + listed(Tail(seq))

\* The 'new-message' event of message k reaches the list's listener, over the
\* socket it was registered on; an event may come more than once.
adminNewMessage(k) ==
  /\ adminSock # NoSocket
  /\ sockState[adminSock] = "connected"
  /\ k \in 1..Len(allLog)
  /\ listed(sessions) < MaxListed
  /\ sessions' = addMessage(sessions, allLog[k].sessionId, k)
  /\ UNCHANGED <<adminLoad, adminSock, allLog>>
  /\ screenStep
  /\ adminFrame

\* The events of the service's sockets.
adminTransport ==
  /\ \E s \in Sockets : onConnectFields(s) \/ onDisconnectFields(s, TRUE)
  /\ unobserved
  /\ UNCHANGED adminVars
  /\ adminFrame

AdminNext ==
  \/ adminMount
  \/ reloadSessions
  \/ \E ok \in BOOLEAN : sessionsServe(ok)
  \/ loadSessionsDone
  \/ \E sessionId \in Sessions, senderType \in {"USER", "ADMIN"} :
       persistMessage(sessionId, senderType)
  \/ \E k \in 1..MaxServer : adminNewMessage(k)
  \/ adminTransport

\* The admin sessions list under pushes and reloads.
SpecAdmin == Init /\ [][AdminNext]_vars

\* ------------------------------------------------- claims: the transport

\* C5. Reconnection rejoin: when the 'connect' event of a socket fires again
\* after a transport-level disconnect while a session is recorded and the
\* service holds a socket, the handler emits 'join-session' for the recorded
\* session on the service's socket and the record is kept; no joinSession call
\* is needed.
C5_ReconnectRejoin ==
  (lastOp.op = "onReconnect" /\ lastOp.arg # NoSession /\ socket # NoSocket)
    => /\ currentSessionId = lastOp.arg
       /\ \E i \in 1..Len(out) : out[i] = Emit(socket, "join-session", lastOp.arg)

\* C5 witness: connect(), joinSession(A), transport disconnect, reconnect of the
\* service's own socket, which re-emitted the join for A.
C5_Witness ==
  /\ lastOp = Op("onReconnect", socket, "A")
  /\ socket # NoSocket
  /\ out = <<Emit(socket, "join-sessions", NoSession), Emit(socket, "join-session", "A")>>

\* C6. joinSession(sessionId) always records sessionId as currentSessionId; it
\* emits 'join-session' at once exactly when the service holds a socket and
\* isConnected is set, otherwise it emits nothing; and after the 'connect'
\* handler has run with a socket held, no join is left deferred.
C6_JoinDeferredUntilConnect ==
  /\ lastOp.op = "joinSession" =>
       /\ currentSessionId = lastOp.arg
       /\ out = IF socket # NoSocket /\ isConnected
                  THEN <<Emit(socket, "join-session", lastOp.arg)>>
                  ELSE <<>>
  /\ (lastOp.op \in {"onConnect", "onReconnect"} /\ socket # NoSocket)
       => pendingJoin = NoSession

\* C6 witness: joinSession(A) was called during the handshake and emitted
\* nothing; the first 'connect' event of that socket then emitted the join.
C6_Witness ==
  /\ lastOp = Op("onConnect", socket, "A")
  /\ socket # NoSocket
  /\ pendingJoin = NoSession
  /\ Emitted(out, "join-session", "A")

\* C7 (as claimed). At most one socket created by chatService is open or
\* connecting at any time.
C7_SingleConnection == Cardinality(liveSockets) <= 1

\* C8 (as claimed). After disconnect(), isConnected and the connected getter
\* are false in every state until connect() is called again.
C8_DisconnectedUntilConnect == discCalled => (~isConnected /\ ~connected)

\* C9 (as claimed). After any call of disconnect(), currentSessionId is null.
C9_DisconnectClearsSession ==
  lastOp.op = "disconnect" => currentSessionId = NoSession

\* ------------------------------------------ claims: the typing indicator

\* C2 (as claimed). Typing debounce: the sendTyping calls of one burst of
\* keystrokes are one isTyping=true and, once a second has passed without a
\* keystroke, one isTyping=false; nothing more is sent until the next
\* keystroke, whatever text is left in the input.
C2_TypingDebounce ==
  /\ sent \in {<<>>, <<TRUE>>, <<TRUE, FALSE>>}
  /\ (sent = <<TRUE, FALSE>> => quiet)
  /\ ((quiet /\ sent # <<>>) => sent = <<TRUE, FALSE>>)

\* ------------------------------------------------ claims: the history call

\* C10 as stated: when the history call fails for any reason (network error,
\* non-404 HTTP error, unsuccessful body) or answers 404, getMessages returns an
\* empty message sequence and does not raise.
C10_ReturnsEmptyOnAnyFailure ==
  (lastOp.op = "getMessages" /\ lastOp.arg # "ok")
    => returned = [raised |-> FALSE, messages |-> <<>>]

\* C10 as amended: getMessages returns an empty message sequence without raising
\* when the call answers 404, returns without raising when it succeeds, and
\* raises to its caller on every other failure (network error, non-404 HTTP
\* error, unsuccessful body).
C10_ReturnsEmptyOnNotFoundOnly ==
  lastOp.op = "getMessages" =>
    /\ lastOp.arg = "http404" => returned = [raised |-> FALSE, messages |-> <<>>]
    /\ lastOp.arg = "ok" => ~returned.raised
    /\ lastOp.arg \in {"unsuccessful", "http500", "network"} => returned.raised

C10_Witness ==
  /\ lastOp.op = "getMessages"
  /\ lastOp.arg = "http404"
  /\ returned = [raised |-> FALSE, messages |-> <<>>]

\* ------------------------------------------------ claims: the message list

\* C1: whatever new-message deliveries (repeated ones included), optimistic
\* inserts and history loads have happened, no permanent (not 'temp-') message
\* id occurs twice in the local message sequence.
C1_NoDuplicatePermanentIds ==
  \A i, j \in 1..Len(messages) :
    (i # j /\ ~isTemp(messages[i])) => messages[i].id # messages[j].id

C1_Witness ==
  /\ optTrack.phase = "redelivered"
  /\ now > 0
  /\ Len(messages) = MaxServer
  /\ \E j \in 1..Len(messages) : messages[j].id = ServerId(optTrack.by)

\* C3: a confirmed (permanent id) message that is in the local sequence is
\* still there, unchanged, after every step: no push event, optimistic insert
\* or history load removes it.
C3_ConfirmedStays ==
  [][\A i \in 1..Len(messages) :
       ~isTemp(messages[i]) =>
         \E j \in 1..Len(messages') : messages'[j] = messages[i]]_vars

C11_FailedRefetchKeepsList ==
  [][(/\ hist["focus"].st = "served"
      /\ hist["focus"].failed
      /\ hist'["focus"].st = "markRead") => messages' = messages]_vars

\* The operations that test `!this.socket || !this.isConnected`.
GuardedOps ==
  {"joinSession", "joinAllSessions", "sendMessageSocket", "sendTyping", "markAsRead"}

\* C12. No operation throws for being not connected: joinSession,
\* joinAllSessions, sendMessageSocket, sendTyping and markAsRead called while
\* the service has no socket or isConnected is false emit nothing, and none of
\* them raises for that: the only raise is markAsRead's whose REST post threw.
C12_NoThrowForNotConnected ==
  lastOp.op \in GuardedOps =>
    /\ ~canEmit => out = <<>>
    /\ returned.raised => (lastOp.op = "markAsRead" /\ request(lastOp.arg).threw)
    /\ (lastOp.op = "markAsRead" /\ ~request(lastOp.arg).threw) => ~returned.raised

\* sendMessageSocket was called on a socket that has not connected yet.
C12_Witness ==
  /\ lastOp.op = "sendMessageSocket"
  /\ socket # NoSocket
  /\ ~isConnected
  /\ out = <<>>
  /\ ~returned.raised

\* C13. A failed send leaves no silent provisional entry: when the REST post
\* of a send is rejected, the step that handles it either removes the entry
\* made for that send, or shows an alert and has the input restored.
C13_FailedSendEntryRemoved ==
  [][(sendPc \in {"rest", "restAudio"} /\ sendPc' = "idle") =>
       \/ \A i \in 1..Len(messages') : messages'[i].id # TempId(sendTemp.n)
       \/ /\ restFailureAlerts(sendPc)
          /\ message' = sendTemp.text]_vars

\* The backend has persisted the message of send n.
persisted(n) == \E i \in 1..Len(serverLog) : serverLog[i].from = n

\* The list holds the provisional entry of send n.
provisional(n) == \E i \in 1..Len(messages) : messages[i].id = TempId(n)

\* C14. Every provisional entry eventually leaves the provisional state: once
\* the backend has persisted the message of a send (received over the socket,
\* or by the REST post while the transport was disconnected), its 'temp-'
\* entry eventually is no longer in the list.
C14_ProvisionalEventuallyConfirmed ==
  \A n \in 1..MaxSends : (persisted(n) /\ provisional(n)) ~> ~provisional(n)

\* C15. Results are applied only while wanted: when a call that is no longer
\* wanted (the screen is unmounted, or the init effect has run again since)
\* resumes, session, messages, loading and error stay as they are.
C15_StaleResultNotApplied ==
  [][\A r \in 1..Len(runs) :
       (stale(r) /\ runs'[r].pc # runs[r].pc)
         => UNCHANGED <<session, messages, loading, error>>]_vars

\* C16. markRead is best-effort: when handleSend resumes after markAsRead,
\* which it calls only after the send went through, the input is what it was,
\* whether markAsRead resolved or rejected: the sent text, image or voice note
\* is not put back.
C16_MarkReadFailureKeepsInput ==
  [][(sendPc = "markRead" /\ sendPc' = "idle")
       => UNCHANGED <<message, selectedImage, recordingUri>>]_vars

\* C17. Upload failure: when handleSend resumes after a rejected image or
\* audio upload, no send was attempted for the message (nothing emitted,
\* nothing posted), the list holds no provisional entry for it, and its
\* content is back in the input: the typed text, the selected image, the
\* recorded voice note.
C17_UploadFailureRestoresAll ==
  [][(sendPc \in {"image", "audio"} /\ sendPc' = "idle") =>
       /\ UNCHANGED <<sockQ, serverLog>>
       /\ \A i \in 1..Len(messages') : messages'[i].id # TempId(sendTemp.n)
       /\ message' = sendTemp.text
       /\ sendTemp.image => selectedImage'
       /\ sendTemp.audio => recordingUri']_vars

\* C18. Listener lifetime: an inbound event on the service's socket runs
\* every callback that was registered and whose disposer has not been called,
\* whether it was registered before connect() made a socket or before a
\* disconnect()/connect() cycle replaced it; and no inbound event runs a
\* callback whose disposer has been called or that was never registered.
C18_ListenerLifetime ==
  invoked.sock # NoSocket =>
    \A cb \in Callbacks :
      /\ (subs[cb] \in {"noop", "off"} /\ invoked.sock = socket)
           => cb \in invoked.cbs
      /\ subs[cb] \in {"none", "disposed"} => cb \notin invoked.cbs

\* The 'connect' handler of a socket has just run.
connectHandled == lastOp.op \in {"onConnect", "onReconnect"}

\* C19 as stated: on every (re)connect isConnected is set and 'join-sessions'
\* is emitted only when the local identity is an agent (ADMIN); for an end-user
\* the handler emits no 'join-sessions'.
C19_JoinSessionsForAgentOnly ==
  connectHandled =>
    /\ isConnected
    /\ Emitted(out, "join-sessions", NoSession) <=> (socket # NoSocket /\ role = "ADMIN")

\* C19 as amended: on every (re)connect isConnected is set and, whatever the
\* role of the local identity, the handler emits 'join-sessions' on the
\* service's socket, followed by 'join-session' for a recorded
\* currentSessionId and nothing else.
C19_JoinSessionsForEveryRole ==
  connectHandled =>
    /\ isConnected
    /\ out = IF socket = NoSocket THEN <<>>
             ELSE <<Emit(socket, "join-sessions", NoSession)>> \o
                  (IF lastOp.arg # NoSession
                     THEN <<Emit(socket, "join-session", lastOp.arg)>>
                     ELSE <<>>)

\* An end-user's socket connected with a session recorded.
C19_Witness ==
  /\ connectHandled
  /\ role = "USER"
  /\ isConnected
  /\ lastOp.arg # NoSession
  /\ Emitted(out, "join-sessions", NoSession)
  /\ Emitted(out, "join-session", lastOp.arg)

\* C20. Logout tears the transport down: once the user is unauthenticated
\* while a socket is connected, eventually no socket is connected any more
\* (or the user has logged in again), whoever opened the socket.
C20_LogoutDisconnects ==
  (~authed /\ \E s \in Sockets : sockState[s] = "connected")
    ~> (authed \/ \A s \in Sockets : sockState[s] # "connected")

\* ------------------------------------------------------ claims: sending

\* handleSend waits for the REST post it issued.
awaitsPost(pc) == pc \in {"rest", "restAudio"}

\* C21. Exactly one send per message: the step of handleSend that sends
\* (after the uploads went through) emits 'send-message' once and posts
\* nothing when chatService.connected, and otherwise posts once and emits
\* nothing; no other step of handleSend emits, and handleSend ends only after
\* that step or after a failed upload.
C21_ExactlyOneSend ==
  [][LET sends == sendPc \in {"idle", "image", "audio"}
                    /\ (sendPc' = "markRead" \/ awaitsPost(sendPc'))
         entry == [n |-> sendTemp'.n, audio |-> sendTemp'.audio]
     IN /\ sends =>
             IF connected
               THEN entry \notin sockQ /\ sockQ' = sockQ \cup {entry}
                    /\ sendPc' = "markRead"
               ELSE sockQ' = sockQ /\ awaitsPost(sendPc')
        /\ ~sends => sockQ' \subseteq sockQ
        /\ (sendPc # "idle" /\ sendPc' = "idle") =>
             sendPc \in {"markRead", "rest", "restAudio", "image", "audio"}]_vars

\* A first send went out over the socket and a second one is waiting for its
\* post.
C21_Witness ==
  /\ sendPc = "rest"
  /\ sendTemp.n = 2
  /\ \E e \in sockQ : e.n = 1

\* C22 as stated: a 'new-message' event whose message id is in the list
\* already leaves the list as it was, provisional entries included.
C22_DuplicateKeepsList ==
  [][(/\ optTrack'.phase = "redelivered"
      /\ \E j \in 1..Len(messages) : messages[j].id = ServerId(optTrack'.by))
       => messages' = messages]_vars

\* C22 as amended: a 'new-message' event whose message id is in the list
\* already leaves the confirmed entries as they were, in their order, and
\* adds none; the provisional entries are gone.
C22_DuplicateKeepsConfirmed ==
  [][(/\ optTrack'.phase = "redelivered"
      /\ \E j \in 1..Len(messages) : messages[j].id = ServerId(optTrack'.by))
       => messages' = SelectSeq(messages, LAMBDA m : ~isTemp(m))]_vars

\* A message came again while a provisional entry was in the list.
C22_Witness ==
  /\ optTrack.phase = "redelivered"
  /\ optTrack.lenBefore > optTrack.confirmedBefore
  /\ Len(messages) = optTrack.confirmedBefore
  /\ \E j \in 1..Len(messages) : messages[j].id = ServerId(optTrack.by)

\* C23 as stated: when a message of the session arrives, a confirmation of
\* the user's own message removes the oldest provisional entry only, and a
\* message of the other party removes no provisional entry.
C23_OnlyOldestRemoved ==
  [][LET temps == SelectSeq(messages, isTemp)
         arrived == messages' # messages /\ UNCHANGED <<initPc, hist, sendPc>>
         by == messages'[Len(messages')].id.n
     IN arrived =>
          SelectSeq(messages', isTemp) =
            IF Len(messages') > 0 /\ ~isTemp(messages'[Len(messages')])
               /\ serverLog[by].from # 0 /\ temps # <<>>
              THEN Tail(temps)
              ELSE temps]_vars

\* C23 as amended: when a message of the session arrives, every provisional
\* entry is removed, whoever sent the message and however many provisional
\* entries were outstanding; the confirmed entries stay, in their order, and
\* the message follows them unless its id is among them.
C23_AllProvisionalRemoved ==
  [][LET kept == SelectSeq(messages, LAMBDA m : ~isTemp(m))
         arrived == messages' # messages /\ UNCHANGED <<initPc, hist, sendPc>>
     IN arrived =>
          \/ messages' = kept
          \/ /\ Len(messages') = Len(kept) + 1
             /\ SubSeq(messages', 1, Len(kept)) = kept
             /\ ~isTemp(messages'[Len(messages')])
             /\ \A j \in 1..Len(kept) : kept[j].id # messages'[Len(messages')].id]_vars

\* The confirmation of the first of two sends arrived while both provisional
\* entries were in the list, and neither is left.
C23_Witness ==
  /\ optTrack.phase = "incoming"
  /\ optTrack.lenBefore >= optTrack.confirmedBefore + 2
  /\ serverLog[optTrack.by].from = 1
  /\ Len(messages) = optTrack.confirmedBefore + 1
  /\ messages[Len(messages)].id = ServerId(optTrack.by)

\* C24 as stated: the message list is ordered by createdAt ascending in every
\* reachable state (entries with the same createdAt may stand in any order,
\* here the order they arrived in).
C24_OrderedByCreatedAt ==
  \A i, j \in 1..Len(messages) :
    i < j => messages[i].createdAt <= messages[j].createdAt

\* C24 as amended: the message list is in arrival order. A step that is not a
\* history load keeps the entries that stay in the order they had and puts
\* every entry that is new behind them; the list is not sorted by createdAt.
C24_ArrivalOrder ==
  [][LET ids(seq) == [i \in 1..Len(seq) |-> seq[i].id]
         old == {messages[i].id : i \in 1..Len(messages)}
         new == {messages'[i].id : i \in 1..Len(messages')}
         historyLoad == initPc' # initPc \/ hist' # hist
     IN ~historyLoad =>
          /\ SelectSeq(ids(messages'), LAMBDA x : x \in old)
               = SelectSeq(ids(messages), LAMBDA x : x \in new)
          /\ \A i, j \in 1..Len(messages') :
               (i < j /\ messages'[i].id \notin old) => messages'[j].id \notin old]_vars

\* The optimistic entry stands behind a confirmed message that came before it,
\* with an older createdAt from the device's clock.
C24_Witness ==
  /\ Len(messages) = 2
  /\ ~isTemp(messages[1])
  /\ isTemp(messages[2])
  /\ messages[2].createdAt < messages[1].createdAt

\* C25. The optimistic entry comes before the send: a step of handleSend or
\* handleSendSuggestion that emits 'send-message' or starts POST /chat/message
\* for a message either appends the message's provisional entry at the tail
\* of the list in that same run, before the send, or resumes after the
\* voice-note upload, which began when the entry had been appended; nothing
\* else sends, so the backend holds no message whose provisional entry was
\* not appended first.
C25_AppendBeforeSend ==
  [][LET posts == sendPc' \in {"rest", "restAudio", "suggest"} /\ sendPc' # sendPc
         appended(n) == /\ Len(messages') = Len(messages) + 1
                        /\ SubSeq(messages', 1, Len(messages)) = messages
                        /\ messages'[Len(messages')].id = TempId(n)
     IN /\ \A e \in sockQ' \ sockQ :
             appended(e.n) \/ (sendPc = "audio" /\ sendTemp.n = e.n)
        /\ posts => appended(sendTemp'.n) \/ (sendPc = "audio" /\ sendTemp.n = sendTemp'.n)
        /\ (sendPc' = "audio" /\ sendPc # "audio") => appended(sendTemp'.n)
        /\ \A i \in 1..Len(serverLog') : serverLog'[i].from <= now]_vars

\* A suggestion is waiting for its post with its provisional entry in the list.
C25_Witness ==
  /\ sendPc = "suggest"
  /\ Len(messages) = 1
  /\ messages[1].id = TempId(sendTemp.n)

\* C26. The provisional entries are a suffix of the message list: no confirmed
\* entry stands behind a provisional one.
C26_ProvisionalSuffix ==
  \A i, j \in 1..Len(messages) :
    (i < j /\ isTemp(messages[i])) => isTemp(messages[j])

\* A confirmed entry with two provisional entries behind it.
C26_Witness ==
  /\ Len(messages) = 3
  /\ ~isTemp(messages[1])
  /\ isTemp(messages[2])
  /\ isTemp(messages[3])

\* C27. The sending lock is released: when neither handleSend nor
\* handleSendSuggestion is running (none waits for an upload, a post or
\* markAsRead), sending is false, so the next send is not blocked.
C27_LockReleased == sendPc = "idle" => ~sending

\* ------------------------------------------------------- claims: typing

\* C28. The screen's sendTyping calls for a session (each a 'typing' event
\* when the socket is up) alternate and start with isTyping=true: a false
\* follows a true of the same session and a true follows nothing or a false,
\* also when the session changes while the screen is typing.
C28_TypingAlternates == \A s \in Sessions : typed[s] # "broken"

\* --------------------------------------------------- claims: inbound events

\* C29. Events of another session change nothing on the chat screen: a
\* 'new-message' event whose sessionId is not the screen's session leaves the
\* message list as it is, provisional entries included, and a 'user-typing'
\* event of another session or of the local user leaves otherUserTyping as it
\* is.
C29_OtherSessionNoEffect ==
  [][lastInbound' # lastInbound =>
       /\ (lastInbound'.ev = "new-message" /\ lastInbound'.sessionId # session)
            => messages' = messages
       /\ (lastInbound'.ev = "user-typing"
            /\ (lastInbound'.sessionId # session \/ lastInbound'.self))
            => otherUserTyping' = otherUserTyping]_vars

\* The other party is shown typing, a provisional entry is in the list, and
\* the last event was a typing stop that was not for this screen.
C29_Witness ==
  /\ lastInbound.ev = "user-typing"
  /\ ~lastInbound.flag
  /\ (lastInbound.sessionId # session \/ lastInbound.self)
  /\ otherUserTyping
  /\ \E j \in 1..Len(messages) : isTemp(messages[j])

\* ------------------------------------------------ claims: the admin list

\* C30. In the admin sessions list no session holds a message id twice,
\* whatever 'new-message' events (repeated ones included) and reloads have
\* happened, so a session's unread count is at most the number of its unread
\* user messages on the backend.
C30_NoDuplicateInSession ==
  \A j \in 1..Len(sessions) :
    /\ \A a, b \in 1..Len(sessions[j].messages) :
         a # b => sessions[j].messages[a].id # sessions[j].messages[b].id
    /\ getUnreadCount(sessions[j])
         <= Cardinality({k \in 1..Len(allLog) :
                           /\ allLog[k].sessionId = sessions[j].id
                           /\ allLog[k].senderType = "USER"})

====
